---- MODULE Spec2Model ----
(***************************************************************************)
(* Model of intgrad1 (src/intgrad1/intgrad1.py): reconstruction of a       *)
(* one-dimensional function from samples of its derivative by integrating  *)
(* a cubic spline fitted through the samples.                              *)
(*                                                                         *)
(* One call of intgrad1(fx, dx, f1) is a behaviour of the state machine:   *)
(* Init chooses the three arguments, and each action is one step of the    *)
(* function body, in program order.  An exception ends the call in         *)
(* pc = "error".                                                           *)
(*                                                                         *)
(* Arrays are records [shape, data]: shape is the numpy shape tuple and    *)
(* data the elements in row-major (C) order, which is the order in which   *)
(* numpy flattens.  Numbers are integers; the spline coefficients are      *)
(* drawn from multiples of 4, 3 and 2 so that the divisions of line 90     *)
(* are exact.                                                              *)
(***************************************************************************)
EXTENDS Integers, Sequences, FiniteSets, TLC

VARIABLES
    pc,           \* position in the body of intgrad1
    fx,           \* argument fx (array)
    dxArg,        \* argument dx as passed by the caller (array; shape <<>> = scalar)
    f1,           \* argument f1
    nx,           \* local nx (line 62)
    xp,           \* local xp: sample coordinates (lines 69, 73)
    dx,           \* local dx after line 70 / 74: segment widths (array)
    uniflag,      \* local uniflag (lines 66, 80)
    c,            \* local c = pp.c.T: one <<c0, c1, c2, c3>> per segment (line 89)
    fhat,         \* local fhat after line 90 (array)
    out,          \* returned fhat (lines 91-93)
    err,          \* the exception that ended the call, "none" otherwise
    splineCalls   \* number of calls of scipy.interpolate.CubicSpline made

vars == <<pc, fx, dxArg, f1, nx, xp, dx, uniflag, c, fhat, out, err, splineCalls>>

----------------------------------------------------------------------------
(* Bounds of the model *)

MaxN == 3        \* longest derivative vector / spacing vector
MaxCoord == 3    \* coordinates of a spacing vector are in 0..MaxCoord

FxVals == {-1, 2}             \* derivative samples
CoordVals == 0 .. MaxCoord    \* entries of a spacing vector
ScalarVals == {-1, 0, 1, 2}   \* scalar spacings
F1Vals == {-3, 5}             \* finite initial values
CubicVals == {0, 4}           \* c[:,0]
QuadVals == {0, 3}            \* c[:,1]
LinVals == {0, 2}             \* c[:,2]

----------------------------------------------------------------------------
(* Sequences and arrays *)

SeqsUpTo(S, lo, hi) == UNION {[1 .. m -> S] : m \in lo .. hi}

RECURSIVE SumTo(_, _)
SumTo(s, k) == IF k = 0 THEN 0 ELSE SumTo(s, k - 1) + s[k]

Abs(a) == IF a < 0 THEN 0 - a ELSE a

Arr(sh, d) == [shape |-> sh, data |-> d]

EmptyArr == Arr(<<0>>, <<>>)

\* ndarray.size / np.size
Size(a) == Len(a.data)

\* np.diff of a one-dimensional sequence
Diff(s) == [i \in 1 .. Len(s) - 1 |-> s[i + 1] - s[i]]

\* np.cumsum without axis: running sums of the flattened array
Cumsum(s) == [k \in 1 .. Len(s) |-> SumTo(s, k)]

\* np.insert(s, 0, 0)
InsertZero(s) == <<0>> \o s

StrictlyIncreasing(s) == \A i \in 1 .. Len(s) - 1 : s[i] < s[i + 1]

----------------------------------------------------------------------------
(* Arguments *)

FxInputs ==
    {Arr(<<Len(d)>>, d) : d \in SeqsUpTo(FxVals, 0, MaxN)}
    \cup {Arr(<<>>, <<v>>) : v \in FxVals}
    \cup {Arr(<<1, 2>>, <<2, 2>>), Arr(<<2, 1>>, <<2, -1>>), Arr(<<2, 2>>, <<2, 2, 2, 2>>)}

DxInputs ==
    {Arr(<<>>, <<v>>) : v \in ScalarVals}
    \cup {Arr(<<Len(d)>>, d) : d \in SeqsUpTo(CoordVals, 0, MaxN)}

F1Inputs ==
    {[size |-> 1, cls |-> "finite", val |-> v] : v \in F1Vals}
    \cup {[size |-> 1, cls |-> k, val |-> 0] : k \in {"nan", "inf", "-inf"}}
    \cup {[size |-> 2, cls |-> "finite", val |-> 0]}

----------------------------------------------------------------------------
(* The steps of intgrad1 as functions of its arguments.  The exceptions,   *)
(* all of class Exception in the source, are named after their messages:   *)
(*   ShapeError         'dfdx must be a vector.' /                         *)
(*                      'dfdx must be a vector of length >= 2'             *)
(*   SpacingError       'dx is not a scalar or of length == nx'            *)
(*   MonotonicityError  'x points must be monotonic increasing'            *)
(*   ValueError         'f1 must be a finite scalar numeric variable.'     *)
(*   SplineError        the ValueError CubicSpline raises for a coordinate *)
(*                      sequence that is not strictly increasing           *)

\* the length test of line 63 written as nx < 1
ShapeInvalid_OffByOne(a) == Len(a.shape) > 1 \/ Size(a) < 1

\* lines 59-64: len(fx.shape) > 1, or nx = fx.size < 2
ShapeInvalid(a) == Len(a.shape) > 1 \/ Size(a) < 2

\* lines 67, 71, 81: which branch the spacing argument takes
SpacingBranch(d, n) ==
    IF Size(d) = 1 THEN "scalar"
    ELSE IF Size(d) = n THEN "vector"
    ELSE "bad"

\* line 69: xp = np.linspace(0, nx-1, num=nx) * dx
ScalarCoords(d, n) == [i \in 1 .. n |-> (i - 1) * d]

\* line 70: dx = np.matlib.repmat(dx, nx-1, 1), a column of shape (nx-1, 1)
Repmat(d, n) == Arr(<<n - 1, 1>>, [i \in 1 .. n - 1 |-> d])

\* the test of line 77 written as dx < 0
NonMonotonic_Strict(w) == \E i \in 1 .. Len(w) : w[i] < 0

\* line 77: np.any(dx <= 0)
NonMonotonic(w) == \E i \in 1 .. Len(w) : w[i] <= 0

\* line 79: np.any(np.abs(ddx) > xp[-1]*1.e-15); for integers of magnitude
\* below 10^15 the comparison a > last*1.e-15 is  a > 0  or  last < 0
NonUniform(w, last) ==
    \E i \in 1 .. Len(w) - 1 : Abs(Diff(w)[i]) > 0 \/ last < 0

\* lines 69, 73: the sample coordinates
Coords(d, n) ==
    IF SpacingBranch(d, n) = "scalar" THEN ScalarCoords(d.data[1], n) ELSE d.data

\* lines 70, 74: the segment widths
Widths(d, n) ==
    IF SpacingBranch(d, n) = "scalar" THEN Repmat(d.data[1], n)
    ELSE Arr(<<Len(d.data) - 1>>, Diff(d.data))

\* lines 66-80
Uniflag(d, n) ==
    IF SpacingBranch(d, n) = "vector" /\ NonUniform(Diff(d.data), d.data[Len(d.data)])
    THEN 0 ELSE 1

\* the spacing step without the test of lines 77-78
SpacingFault_NoMonotonic(d, n) ==
    IF SpacingBranch(d, n) = "bad" THEN "SpacingError" ELSE "none"

\* lines 67-82: the exception of the spacing step, "none" when it passes
SpacingFault(d, n) ==
    IF SpacingBranch(d, n) = "bad" THEN "SpacingError"
    ELSE IF SpacingBranch(d, n) = "vector" /\ NonMonotonic(Diff(d.data))
    THEN "MonotonicityError"
    ELSE "none"

IsNaN(v) == v.cls = "nan"

IsFinite(v) == v.cls = "finite"

\* the test of line 83 without its np.isfinite clause
InitialInvalid_NoFiniteCheck(v) == v.size > 1 \/ IsNaN(v)

\* line 83: np.size(f1) > 1 or np.isnan(f1) or not np.isfinite(f1)
InitialInvalid(v) == v.size > 1 \/ IsNaN(v) \/ ~IsFinite(v)

\* line 88-89: the coefficient tables CubicSpline(xp, fx).c.T may hold: one
\* row <<c0, c1, c2, c3>> per segment, in powers 3, 2, 1, 0 of (x - xp[i]),
\* whose constant term is the sample at the left knot.  The fit itself is
\* scipy's; every table of this form is a possible outcome.
CoefTables(y) ==
    {[i \in 1 .. Len(y) - 1 |-> <<h[i][1], h[i][2], h[i][3], y[i]>>] :
        h \in [1 .. Len(y) - 1 -> CubicVals \X QuadVals \X LinVals]}

\* line 90 without its leading factor dx
SegmentIntegral_NoWidth(w, cf) ==
    cf[4] + w * ((cf[3] \div 2) + w * ((cf[2] \div 3) + ((w * cf[1]) \div 4)))

\* line 90 for one width and one coefficient row:
\* dx*(c3 + dx*(c2/2 + dx*(c1/3 + dx*c0/4)))
SegmentIntegral(w, cf) ==
    w * (cf[4] + w * ((cf[3] \div 2) + w * ((cf[2] \div 3) + ((w * cf[1]) \div 4))))

\* line 90 with the broadcast table transposed: entry [i][j] pairs dx[j]
\* with c[i]
IntegrateSegments_Transposed(d, cs) ==
    IF Len(d.shape) = 2
    THEN Arr(<<Len(cs), Len(d.data)>>,
             [p \in 1 .. Len(d.data) * Len(cs) |->
                 SegmentIntegral(d.data[((p - 1) % Len(d.data)) + 1],
                                 cs[((p - 1) \div Len(d.data)) + 1])])
    ELSE Arr(<<Len(cs)>>, [i \in 1 .. Len(cs) |-> SegmentIntegral(d.data[i], cs[i])])

\* line 90 with numpy broadcasting: a column dx of shape (m,1) against the
\* coefficient columns of shape (m,) gives the (m,m) table whose entry [i][j]
\* pairs dx[i] with c[j]; a flat dx of shape (m,) is paired elementwise.
IntegrateSegments(d, cs) ==
    IF Len(d.shape) = 2
    THEN Arr(<<Len(d.data), Len(cs)>>,
             [p \in 1 .. Len(d.data) * Len(cs) |->
                 SegmentIntegral(d.data[((p - 1) \div Len(cs)) + 1],
                                 cs[((p - 1) % Len(cs)) + 1])])
    ELSE Arr(<<Len(cs)>>, [i \in 1 .. Len(cs) |-> SegmentIntegral(d.data[i], cs[i])])

\* line 91 without the inserted zero
Assemble_NoPrefix(v, a) == [k \in 1 .. Len(a.data) |-> v + Cumsum(a.data)[k]]

\* line 91: f1 + np.insert(np.cumsum(fhat), 0, 0)
Assemble(v, a) ==
    [k \in 1 .. Len(a.data) + 1 |-> v + InsertZero(Cumsum(a.data))[k]]

\* lines 88-93 for a call that passed validation, for the coefficient table cs
ReturnValue(fxa, dxa, v, cs) ==
    Assemble(v.val, IntegrateSegments(Widths(dxa, Size(fxa)), cs))

----------------------------------------------------------------------------
(* The call *)

Init ==
    /\ pc = "shape"
    /\ fx \in FxInputs
    /\ dxArg \in DxInputs
    /\ f1 \in F1Inputs
    /\ nx = 0
    /\ xp = <<>>
    /\ dx = EmptyArr
    /\ uniflag = 1
    /\ c = <<>>
    /\ fhat = EmptyArr
    /\ out = <<>>
    /\ err = "none"
    /\ splineCalls = 0

\* lines 59-64
CheckShape ==
    /\ pc = "shape"
    /\ IF ShapeInvalid(fx)
       THEN /\ pc' = "error"
            /\ err' = "ShapeError"
            /\ nx' = nx
       ELSE /\ pc' = "spacing"
            /\ err' = err
            /\ nx' = Size(fx)
    /\ UNCHANGED <<fx, dxArg, f1, xp, dx, uniflag, c, fhat, out, splineCalls>>

\* lines 65-82
ResolveSpacing ==
    /\ pc = "spacing"
    /\ IF SpacingFault(dxArg, nx) # "none"
       THEN /\ pc' = "error"
            /\ err' = SpacingFault(dxArg, nx)
            /\ UNCHANGED <<xp, dx, uniflag>>
       ELSE /\ pc' = "initial"
            /\ err' = err
            /\ xp' = Coords(dxArg, nx)
            /\ dx' = Widths(dxArg, nx)
            /\ uniflag' = Uniflag(dxArg, nx)
    /\ UNCHANGED <<fx, dxArg, f1, nx, c, fhat, out, splineCalls>>

\* lines 83-84
CheckInitial ==
    /\ pc = "initial"
    /\ IF InitialInvalid(f1)
       THEN /\ pc' = "error"
            /\ err' = "ValueError"
       ELSE /\ pc' = "fit"
            /\ err' = err
    /\ UNCHANGED <<fx, dxArg, f1, nx, xp, dx, uniflag, c, fhat, out, splineCalls>>

\* lines 88-89
SplineFit ==
    /\ pc = "fit"
    /\ splineCalls' = splineCalls + 1
    /\ IF StrictlyIncreasing(xp)
       THEN /\ pc' = "integrate"
            /\ err' = err
            /\ c' \in CoefTables(fx.data)
       ELSE /\ pc' = "error"
            /\ err' = "SplineError"
            /\ c' = c
    /\ UNCHANGED <<fx, dxArg, f1, nx, xp, dx, uniflag, fhat, out>>

\* line 90
Integrate ==
    /\ pc = "integrate"
    /\ pc' = "assemble"
    /\ fhat' = IntegrateSegments(dx, c)
    /\ UNCHANGED <<fx, dxArg, f1, nx, xp, dx, uniflag, c, out, err, splineCalls>>

\* lines 91-93
AssembleOutput ==
    /\ pc = "assemble"
    /\ pc' = "done"
    /\ out' = Assemble(f1.val, fhat)
    /\ UNCHANGED <<fx, dxArg, f1, nx, xp, dx, uniflag, c, fhat, err, splineCalls>>

Next ==
    \/ CheckShape
    \/ ResolveSpacing
    \/ CheckInitial
    \/ SplineFit
    \/ Integrate
    \/ AssembleOutput

Spec == Init /\ [][Next]_vars

----------------------------------------------------------------------------
(* Vocabulary of the properties *)

\* the derivative argument is a one-dimensional array of at least 2 samples
IsVector(a) == Len(a.shape) = 1 /\ a.shape[1] >= 2

\* the spacing argument is a bare scalar
ScalarSpacing == dxArg.shape = <<>>

\* the spacing argument is a sequence with one coordinate per sample
VectorSpacing == Len(dxArg.shape) = 1 /\ dxArg.shape[1] = Size(fx)

\* some adjacent difference of the spacing sequence is <= 0
HasNonPositiveGap(s) == \E i \in 1 .. Len(s) - 1 : s[i + 1] - s[i] <= 0

ValidationErrors == {"ShapeError", "SpacingError", "MonotonicityError", "ValueError"}

\* the call has returned a result
Returned == pc = "done"

\* the explicit coordinate vector [0, d, 2d, ..., (n-1)d]
ExplicitVector(d, n) == Arr(<<n>>, [i \in 1 .. n |-> (i - 1) * d])

\* the derivative is the constant fx[0] and the spline is that constant
ConstantSpline ==
    /\ \A i \in 1 .. Len(fx.data) : fx.data[i] = fx.data[1]
    /\ \A i \in 1 .. Len(c) : c[i] = <<0, 0, 0, fx.data[1]>>

\* 12 times the integral of c0 t^3 + c1 t^2 + c2 t + c3 over [0, w]
TwelveTimesIntegral(w, cf) ==
    w * (12 * cf[4] + w * (6 * cf[3] + w * (4 * cf[2] + w * 3 * cf[1])))

\* 12 times the sum of the integrals of segments 0..k-1, each over the gap
\* between its own two knots
RECURSIVE TwelveTimesArea(_)
TwelveTimesArea(k) ==
    IF k = 0 THEN 0
    ELSE TwelveTimesArea(k - 1) + TwelveTimesIntegral(xp[k + 1] - xp[k], c[k])

----------------------------------------------------------------------------
(* Properties *)

\* C1: every call that passes validation returns exactly n entries, n the
\* number of derivative samples, for scalar and for vector spacing.
C1_LengthPreserved == Returned => Len(out) = Size(fx)

\* C2: a call with scalar spacing d > 0 returns the same sequence as the call
\* with the explicit coordinate vector [0, d, ..., (n-1)d], for the same
\* derivative, initial value and spline coefficients.
C2_ScalarEquivalence ==
    (Returned /\ ScalarSpacing /\ dxArg.data[1] > 0)
        => out = ReturnValue(fx, ExplicitVector(dxArg.data[1], nx), f1, c)

\* C3: for a constant derivative c (all spline segments 0, 0, 0, c), scalar
\* spacing d and initial value f1, output[k] = f1 + k*d*c for k in 0..n-1.
C3_ConstantRamp ==
    (Returned /\ ScalarSpacing /\ ConstantSpline)
        => \A k \in 0 .. nx - 1 :
              out[k + 1] = f1.val + k * dxArg.data[1] * fx.data[1]

C3_Witness ==
    /\ Returned /\ ScalarSpacing /\ ConstantSpline
    /\ nx = 3 /\ dxArg.data[1] = 2 /\ fx.data[1] = -1

\* C4: the first entry of every returned sequence is the initial value f1.
C4_InitialAnchored == Returned => out[1] = f1.val

C4_Witness == Returned /\ VectorSpacing /\ out[1] = 5 /\ out[2] # 5

\* C5: the call fails with the shape error, without output, whenever the
\* derivative is not one-dimensional or has fewer than 2 elements, whatever
\* the other arguments; it never fails with it for a vector of n >= 2.
C5_ShapeRejection ==
    pc # "shape" =>
        /\ ~IsVector(fx) => (pc = "error" /\ err = "ShapeError" /\ out = <<>>)
        /\ IsVector(fx) => err # "ShapeError"

C5_Witness ==
    /\ err = "ShapeError" /\ fx.shape = <<1>>
    /\ f1.cls = "nan" /\ dxArg.shape = <<0>>

\* C6: for a valid derivative of length n and a spacing sequence of length n,
\* the call fails with the monotonicity error if and only if some adjacent
\* difference of the spacing sequence is <= 0.
C6_MonotonicityRejection ==
    (pc \notin {"shape", "spacing"} /\ IsVector(fx) /\ VectorSpacing)
        => (err = "MonotonicityError" <=> HasNonPositiveGap(dxArg.data))

C6_Witness ==
    /\ err = "MonotonicityError" /\ nx = 3
    /\ dxArg.data[1] < dxArg.data[2] /\ dxArg.data[2] = dxArg.data[3]

\* C7: with valid derivative and spacing arguments, the call fails with the
\* initial-value error exactly when the initial value is NaN, +infinity,
\* -infinity or not a single scalar; every single finite number is accepted.
C7_InitialValueRejection ==
    (pc \notin {"shape", "spacing", "initial"}
        /\ err \notin {"ShapeError", "SpacingError", "MonotonicityError"})
        => (err = "ValueError"
              <=> (f1.size > 1 \/ f1.cls \in {"nan", "inf", "-inf"}))

C7_Witness == err = "ValueError" /\ f1.cls = "-inf" /\ VectorSpacing

\* C8: for every returned call and k in 1..n-1, output[k] is the initial
\* value plus the sum over segments 0..k-1 of the integral of the segment's
\* own cubic over the segment's own width.
C8_CumulativeIntegral ==
    Returned => \A k \in 1 .. nx - 1 :
                    12 * (out[k + 1] - f1.val) = TwelveTimesArea(k)

C8_Witness ==
    /\ Returned /\ nx = 3 /\ uniflag = 0
    /\ c[1][1] # c[2][1] /\ c[1][4] # c[2][4]

\* C9: whenever the spline fit is reached, n >= 2, the sample coordinates
\* are strictly increasing and the segment widths are n-1 positive values;
\* no scalar spacing d <= 0 reaches the fit.
C9_FitPreconditions ==
    pc = "fit" =>
        /\ nx >= 2
        /\ StrictlyIncreasing(xp)
        /\ Len(dx.data) = nx - 1
        /\ \A i \in 1 .. Len(dx.data) : dx.data[i] > 0
        /\ ScalarSpacing => dxArg.data[1] > 0

\* C10: the spline fit is invoked only after the shape, spacing-size,
\* monotonicity and initial-value checks have all passed; a call that ends
\* in one of their errors has not invoked the fit and has no output.
C10_EagerValidation ==
    /\ splineCalls > 0 =>
          /\ IsVector(fx)
          /\ Size(dxArg) \in {1, Size(fx)}
          /\ Size(dxArg) = Size(fx) => ~HasNonPositiveGap(dxArg.data)
          /\ f1.size = 1 /\ f1.cls = "finite"
    /\ err \in ValidationErrors => (pc = "error" /\ splineCalls = 0 /\ out = <<>>)
    /\ out # <<>> => (splineCalls > 0 /\ err = "none")

C10_Witness ==
    /\ pc = "error" /\ err = "ValueError" /\ splineCalls = 0
    /\ ScalarSpacing /\ f1.size = 2

====
